---- MODULE Spec2Model ----
(***************************************************************************)
(* Events CRUD API: the Express router (routes/eventRoutes.js), the five   *)
(* handlers of the event controller, the body-parser / 404 / global error  *)
(* middleware of the server file, and the "events" collection they act on. *)
(***************************************************************************)
EXTENDS Integers, Sequences, FiniteSets, TLC

VARIABLES store, nextId, clock, nodeEnv, pending, req, res, lists, deleted

vars == <<store, nextId, clock, nodeEnv, pending, req, res, lists, deleted>>

(***************************************************************************)
(* Bounds of the model.                                                    *)
(***************************************************************************)
\* number of documents the store ever generates an _id for
MaxDocs == 2
\* largest reading of the millisecond clock
MaxClock == 2
\* largest limit / page query parameter tried
MaxLimit == 2
MaxPage == 2

(***************************************************************************)
(* JSON / BSON values.  Every value is a record of the same shape: a tag,  *)
(* a sequence of one-character strings (text, or the labels of an array or *)
(* object) and an integer.                                                 *)
(***************************************************************************)
Val(t, s, n) == [t |-> t, s |-> s, n |-> n]
Str(s)       == Val("str", s, 0)
Num(n)       == Val("num", <<>>, n)
NaN          == Val("nan", <<>>, 0)
Null         == Val("null", <<>>, 0)
Arr(s)       == Val("arr", s, 0)
Obj(s)       == Val("obj", s, 0)
DateV(n)     == Val("date", <<>>, n)
InvalidDate  == Val("invalidDate", <<>>, 0)
OidV(s)      == Val("oid", s, 0)

\* an object with no keys ({} as a request body)
EmptyObj == [k \in {} |-> Null]

\* JavaScript truthiness (!x, x || d, x ? a : b)
Truthy(v) ==
    CASE v.t = "str"  -> v.s # <<>>
      [] v.t = "num"  -> v.n # 0
      [] v.t = "nan"  -> FALSE
      [] v.t = "null" -> FALSE
      [] OTHER        -> TRUE

\* body.key, "undefined" when the key is absent
Undefined == Val("undefined", <<>>, 0)
Field(body, k) == IF k \in DOMAIN body THEN body[k] ELSE Undefined
Present(v) == v.t # "undefined"
TruthyField(body, k) == k \in DOMAIN body /\ Truthy(body[k])

(***************************************************************************)
(* parseInt(x, 10): String(x), skip leading white space, an optional sign, *)
(* then the longest prefix of decimal digits; NaN when that is empty.      *)
(***************************************************************************)
DigitChars == {"0", "1", "2", "3", "4", "5", "6", "7", "8", "9"}
DigitVal(c) ==
    CASE c = "0" -> 0 [] c = "1" -> 1 [] c = "2" -> 2 [] c = "3" -> 3
      [] c = "4" -> 4 [] c = "5" -> 5 [] c = "6" -> 6 [] c = "7" -> 7
      [] c = "8" -> 8 [] c = "9" -> 9

RECURSIVE SkipSpace(_)
SkipSpace(s) == IF s # <<>> /\ Head(s) = " " THEN SkipSpace(Tail(s)) ELSE s

RECURSIVE DigitPrefix(_)
DigitPrefix(s) ==
    IF s # <<>> /\ Head(s) \in DigitChars
    THEN <<Head(s)>> \o DigitPrefix(Tail(s))
    ELSE <<>>

RECURSIVE DigitsValue(_, _)
DigitsValue(s, acc) ==
    IF s = <<>> THEN acc ELSE DigitsValue(Tail(s), acc * 10 + DigitVal(Head(s)))

ParseIntText(s) ==
    LET t    == SkipSpace(s)
        neg  == t # <<>> /\ Head(t) = "-"
        body == IF t # <<>> /\ Head(t) \in {"-", "+"} THEN Tail(t) ELSE t
        ds   == DigitPrefix(body)
    IN  IF ds = <<>> THEN NaN
        ELSE Num(IF neg THEN 0 - DigitsValue(ds, 0) ELSE DigitsValue(ds, 0))

\* String(x) of the values an array can hold here: its elements joined by ","
RECURSIVE JoinArr(_)
JoinArr(s) ==
    IF s = <<>> THEN <<>>
    ELSE IF Len(s) = 1 THEN <<Head(s)>>
    ELSE <<Head(s), ",">> \o JoinArr(Tail(s))

parseInt(v) ==
    CASE v.t = "num" -> v
      [] v.t = "str" -> ParseIntText(v.s)
      [] v.t = "arr" -> ParseIntText(JoinArr(v.s))
      [] OTHER       -> NaN

(***************************************************************************)
(* new Date(x).  A number is the millisecond count itself.  Of the texts   *)
(* used in this model only "1970" is a date (the ISO year form, instant 0);*)
(* every other text yields an Invalid Date.                                *)
(***************************************************************************)
NewDate(v) ==
    CASE v.t = "num" -> DateV(v.n)
      [] v.t = "str" -> IF v.s = <<"1", "9", "7", "0">> THEN DateV(0) ELSE InvalidDate
      [] v.t = "null" -> DateV(0)
      [] OTHER       -> InvalidDate

\* BSON comparison order of the values a schedule field can hold:
\* null < numbers (NaN first) < strings < objects < arrays < ObjectId < dates
TypeRank(v) ==
    CASE v.t = "null" -> 1
      [] v.t \in {"num", "nan"} -> 2
      [] v.t = "str"  -> 3
      [] v.t = "obj"  -> 4
      [] v.t = "arr"  -> 5
      [] v.t = "oid"  -> 7
      [] OTHER        -> 9

\* v sorts at or before w in ascending order (texts compared by length only:
\* the one text a schedule can hold is "")
SortLeq(v, w) ==
    IF TypeRank(v) # TypeRank(w) THEN TypeRank(v) < TypeRank(w)
    ELSE CASE v.t = "nan" -> TRUE
           [] w.t = "nan" -> FALSE
           [] v.t = "str" -> Len(v.s) <= Len(w.s)
           [] OTHER       -> v.n <= w.n

(***************************************************************************)
(* ObjectId: 24 hexadecimal characters, compared without regard to case.   *)
(***************************************************************************)
OidLen == 24
HexChars == DigitChars \cup {"a", "b", "c", "d", "e", "f", "A", "B", "C", "D", "E", "F"}
LowerHex(c) ==
    CASE c = "A" -> "a" [] c = "B" -> "b" [] c = "C" -> "c"
      [] c = "D" -> "d" [] c = "E" -> "e" [] c = "F" -> "f"
      [] OTHER -> c

\* isValid checking the length alone
isValid_LengthOnly(id) == Len(id) = OidLen

\* ObjectId.isValid(id) for a string id
isValid(id) == Len(id) = OidLen /\ \A i \in 1..Len(id) : id[i] \in HexChars

\* new ObjectId(id): the key the text denotes
ObjectId(id) == OidV([i \in 1..Len(id) |-> LowerHex(id[i])])

Zeros(n) == [i \in 1..n |-> "0"]
HexDigit(n) == <<"0", "1", "2", "3", "4", "5", "6", "7", "8", "9",
                 "a", "b", "c", "d", "e", "f">>[n + 1]

\* an _id generator that hands out the same key again
GeneratedId_Reused(n) == OidV(Zeros(OidLen - 1) \o <<"a">>)

\* the n-th _id the driver generates on insertOne (n = 1, 2, ...): never one
\* it generated before
GeneratedId(n) == OidV(Zeros(OidLen - 1) \o <<HexDigit(9 + n)>>)

(***************************************************************************)
(* The "events" collection: a set of documents, each a function from field *)
(* name to value.                                                          *)
(***************************************************************************)
COLLECTION_NAME == "events"

Ids(coll) == {d["_id"] : d \in coll}

\* findOne({_id: key}): the set of matching documents (empty or a singleton)
findOne(coll, key) == {d \in coll : d["_id"] = key}

\* insertOne(doc): the driver adds the generated _id
insertOne(coll, doc, n) == coll \cup {[k \in DOMAIN doc \cup {"_id"} |->
                                        IF k = "_id" THEN GeneratedId(n) ELSE doc[k]]}

\* $set: the fields of the update replace or extend those of the document
SetFields(d, fields) ==
    [k \in DOMAIN d \cup DOMAIN fields |-> IF k \in DOMAIN fields THEN fields[k] ELSE d[k]]

\* updateOne({_id: key}, {$set: fields})
updateOne(coll, key, fields) ==
    {IF d["_id"] = key THEN SetFields(d, fields) ELSE d : d \in coll}

\* the server refuses a $set that would change the immutable _id
UpdateRejected(coll, key, fields) ==
    \E d \in findOne(coll, key) : "_id" \in DOMAIN fields /\ fields["_id"] # d["_id"]

\* deleteOne({_id: key})
deleteOne(coll, key) == {d \in coll : d["_id"] # key}

countDocuments(coll) == Cardinality(coll)

\* find({}).sort({schedule: -1}): every order of the collection that is
\* descending in schedule; the order among equal schedules is not determined
SortedDesc(coll) ==
    LET n == Cardinality(coll)
    IN  {o \in [1..n -> coll] :
            /\ \A i, j \in 1..n : i # j => o[i] # o[j]
            /\ \A i \in 1..n : \A j \in 1..n :
                  i < j => SortLeq(o[j]["schedule"], o[i]["schedule"])}

\* .skip(skip).limit(limit).toArray() of an order
SkipLimit(o, skip, limit) ==
    LET lo == skip + 1
        hi == IF skip + limit < Len(o) THEN skip + limit ELSE Len(o)
    IN  IF lo > hi THEN <<>> ELSE [i \in 1..(hi - lo + 1) |-> o[lo + i - 1]]

(***************************************************************************)
(* The JSON envelope of a response.  hasError tells whether the body has   *)
(* an "error" key; data is the list of documents returned.                 *)
(***************************************************************************)
NoPagination == [currentPage |-> 0, limit |-> 0, totalEvents |-> 0, totalPages |-> 0]

Resp(status, success, message, hasError, data, pagination) ==
    [status |-> status, success |-> success, message |-> message,
     hasError |-> hasError, data |-> data, pagination |-> pagination]

Failure(status, message) == Resp(status, FALSE, message, FALSE, <<>>, NoPagination)

\* the catch block of all five handlers: the error text is always attached
CatchBlock(env) == Resp(500, FALSE, "Internal server error", TRUE, <<>>, NoPagination)

\* the outcome of a handler: its response and the collection it leaves
Outcome(r, coll) == [res |-> r, store |-> coll]

(***************************************************************************)
(* GET /events?id=...                                                      *)
(***************************************************************************)
getEventById(coll, env, id, fail) ==
    IF id = <<>> THEN Outcome(Failure(400, "Event ID is required"), coll)
    ELSE IF ~isValid(id) THEN Outcome(Failure(400, "Invalid Event ID format"), coll)
    ELSE IF fail THEN Outcome(CatchBlock(env), coll)
    ELSE LET found == findOne(coll, ObjectId(id))
         IN  IF found = {} THEN Outcome(Failure(404, "Event not found"), coll)
             ELSE Outcome(Resp(200, TRUE, "", FALSE,
                               <<CHOOSE d \in found : TRUE>>, NoPagination), coll)

(***************************************************************************)
(* POST /events                                                            *)
(***************************************************************************)
\* the default taken only when the key is absent
OrElse_KeyPresent(body, k, d) == IF k \in DOMAIN body THEN body[k] ELSE d

\* x || d
OrElse(body, k, d) == IF TruthyField(body, k) THEN body[k] ELSE d

DefaultFiles == Obj(<<"image", ":", "null">>)

\* the eventDocument literal; t1, t2, t3 are the readings of the three
\* new Date() calls, in evaluation order
EventDocument(body, t1, t2, t3) ==
    [k \in {"type", "uid", "name", "tagline", "schedule", "description", "files",
            "moderator", "category", "sub_category", "rigor_rank", "attendees",
            "createdAt", "updatedAt"} |->
        CASE k = "type"         -> Str(<<"e", "v", "e", "n", "t">>)
          [] k = "uid"          -> OrElse(body, "uid", Null)
          [] k = "name"         -> body["name"]
          [] k = "tagline"      -> OrElse(body, "tagline", Str(<<>>))
          [] k = "schedule"     -> IF TruthyField(body, "schedule")
                                   THEN NewDate(body["schedule"]) ELSE DateV(t1)
          [] k = "description"  -> OrElse(body, "description", Str(<<>>))
          [] k = "files"        -> OrElse(body, "files", DefaultFiles)
          [] k = "moderator"    -> OrElse(body, "moderator", Null)
          [] k = "category"     -> OrElse(body, "category", Str(<<>>))
          [] k = "sub_category" -> OrElse(body, "sub_category", Str(<<>>))
          [] k = "rigor_rank"   -> IF TruthyField(body, "rigor_rank")
                                   THEN parseInt(body["rigor_rank"]) ELSE Num(0)
          [] k = "attendees"    -> IF Field(body, "attendees").t = "arr"
                                   THEN body["attendees"] ELSE Arr(<<>>)
          [] k = "createdAt"    -> DateV(t2)
          [] k = "updatedAt"    -> DateV(t3)]

\* the name check testing only that the key is there
NameMissing_KeyOnly(body) == "name" \notin DOMAIN body

\* the name check of createEvent
NameMissing(body) == ~TruthyField(body, "name")

createEvent(coll, env, n, hasBody, body, t1, t2, t3, fail) ==
    IF ~hasBody THEN Outcome(CatchBlock(env), coll)
    ELSE IF NameMissing(body) THEN Outcome(Failure(400, "Event name is required"), coll)
    ELSE IF fail THEN Outcome(CatchBlock(env), coll)
    ELSE Outcome(Resp(201, TRUE, "Event created successfully", FALSE,
                      <<[k \in {"_id"} |-> GeneratedId(n)]>>, NoPagination),
                 insertOne(coll, EventDocument(body, t1, t2, t3), n))

(***************************************************************************)
(* PUT /events/:id                                                         *)
(***************************************************************************)
\* the deletion of _id alone
DropReserved_IdOnly(body) == [k \in DOMAIN body \ {"_id"} |-> body[k]]

\* delete updateFields._id; delete updateFields.type
DropReserved(body) == [k \in DOMAIN body \ {"_id", "type"} |-> body[k]]

\* the update set with updatedAt stamped only when the body has none
UpdateFields_ClientStamp(body, now) ==
    LET kept == DropReserved(body)
    IN  [k \in DOMAIN kept \cup {"updatedAt"} |->
            CASE k = "updatedAt" -> IF k \in DOMAIN kept THEN kept[k] ELSE DateV(now)
              [] k = "schedule"  -> IF Truthy(kept[k]) THEN NewDate(kept[k]) ELSE kept[k]
              [] k = "rigor_rank" -> parseInt(kept[k])
              [] OTHER           -> kept[k]]

\* the update set handed to $set; now is the reading of new Date()
UpdateFields(body, now) ==
    LET kept == DropReserved(body)
    IN  [k \in DOMAIN kept \cup {"updatedAt"} |->
            CASE k = "updatedAt" -> DateV(now)
              [] k = "schedule"  -> IF Truthy(kept[k]) THEN NewDate(kept[k]) ELSE kept[k]
              [] k = "rigor_rank" -> parseInt(kept[k])
              [] OTHER           -> kept[k]]

updateEvent(coll, env, id, hasBody, body, now, fail) ==
    IF id = <<>> THEN Outcome(Failure(400, "Event ID is required"), coll)
    ELSE IF ~isValid(id) THEN Outcome(Failure(400, "Invalid Event ID format"), coll)
    ELSE IF ~hasBody THEN Outcome(CatchBlock(env), coll)
    ELSE IF DOMAIN body = {} THEN Outcome(Failure(400, "No update fields provided"), coll)
    ELSE LET key    == ObjectId(id)
             fields == UpdateFields(body, now)
             after  == updateOne(coll, key, fields)
         IN  IF fail \/ UpdateRejected(coll, key, fields) THEN Outcome(CatchBlock(env), coll)
             ELSE IF findOne(coll, key) = {}
             THEN Outcome(Failure(404, "Event not found"), coll)
             ELSE Outcome(Resp(200, TRUE, "Event updated successfully", FALSE,
                               <<>>, NoPagination), after)

(***************************************************************************)
(* DELETE /events/:id                                                      *)
(***************************************************************************)
deleteEvent(coll, env, id, fail) ==
    IF id = <<>> THEN Outcome(Failure(400, "Event ID is required"), coll)
    ELSE IF ~isValid(id) THEN Outcome(Failure(400, "Invalid Event ID format"), coll)
    ELSE IF fail THEN Outcome(CatchBlock(env), coll)
    ELSE IF findOne(coll, ObjectId(id)) = {}
    THEN Outcome(Failure(404, "Event not found"), coll)
    ELSE Outcome(Resp(200, TRUE, "Event deleted successfully", FALSE, <<>>, NoPagination),
                 deleteOne(coll, ObjectId(id)))

(***************************************************************************)
(* GET /events?type=latest&limit=..&page=..  The handler awaits the store  *)
(* twice (countDocuments, then find): ListValidate is the part up to the   *)
(* count, ListRespond the part from the find on.                           *)
(***************************************************************************)
DefaultLimit == 5
DefaultPage == 1

\* const { limit = 5, page = 1 } = req.query; parseInt(.., 10)
QueryInt(v, dflt) == IF Present(v) THEN parseInt(v) ELSE Num(dflt)

NotPositive(v) == v.t = "nan" \/ v.n < 1

\* Math.ceil(a / b) for b >= 1
Ceil(a, b) == (a + b - 1) \div b

Skip(pageNum, limitNum) == (pageNum - 1) * limitNum

\* the 200 response of getLatestEvents for the page found and the count taken
ListResponse(events, pageNum, limitNum, totalCount) ==
    Resp(200, TRUE, "", FALSE, events,
         [currentPage |-> pageNum, limit |-> limitNum, totalEvents |-> totalCount,
          totalPages |-> Ceil(totalCount, limitNum)])

(***************************************************************************)
(* Requests.                                                               *)
(***************************************************************************)
Z23 == Zeros(OidLen - 1)

\* the identifier texts tried: none, 24 characters but not hexadecimal, and
\* well-formed ones in either letter case
IdInputs == { <<>>, Z23 \o <<"g">>, Z23 \o <<"a">>, Z23 \o <<"A">>, Z23 \o <<"b">> }

NumText(n) == <<HexDigit(n)>>

\* limit and page of the list requests handled one at a time: defaults and
\* values the validation refuses
LimitInputs == {Undefined, Str(<<"x">>)}
PageInputs  == {Undefined, Str(<<"0">>)}

\* limit and page of the list requests of a client paging through the store
PagingLimits == {Str(<<"0">>)} \cup {Str(NumText(n)) : n \in 1..MaxLimit}
PagingPages  == {Str(NumText(n)) : n \in 1..MaxPage}

\* bodies of POST /events: no name, empty name, name only, and one with the
\* reserved and server-assigned keys, an unknown key and values to coerce
NameOnly == "name" :> Str(<<"X">>)
FullBody ==
    ("name" :> Str(<<"Y">>)) @@ ("_id" :> OidV(Zeros(OidLen))) @@ ("type" :> Str(<<"h">>))
       @@ ("createdAt" :> Num(0)) @@ ("foo" :> Num(1)) @@ ("schedule" :> Num(2))
       @@ ("rigor_rank" :> Str(<<"5">>)) @@ ("attendees" :> Str(<<"b">>))
       @@ ("tagline" :> Str(<<"t">>)) @@ ("files" :> Obj(<<"p">>)) @@ ("uid" :> Num(0))
CreateBodies == { EmptyObj, "name" :> Str(<<>>), NameOnly, FullBody }

\* bodies of PUT /events/:id
ReservedBody ==
    ("_id" :> OidV(Zeros(OidLen))) @@ ("type" :> Str(<<"h">>)) @@ ("tagline" :> Str(<<"n">>))
       @@ ("createdAt" :> Num(0)) @@ ("updatedAt" :> Num(0)) @@ ("schedule" :> Num(1))
       @@ ("rigor_rank" :> Str(<<"7">>))
UpdateBodies == { EmptyObj, ReservedBody }

\* bodies of the requests that run beside a list request
ScheduledBody == ("name" :> Str(<<"S">>)) @@ ("schedule" :> Num(2))
PageBodies == { NameOnly, ScheduledBody }

\* a request: the route taken, the id text, whether a JSON object was parsed
\* as the body and which, the limit and page texts, and whether the store
\* call made for it throws
Request(op, id, hasBody, body, limit, page, fail) ==
    [op |-> op, id |-> id, hasBody |-> hasBody, body |-> body, limit |-> limit,
     page |-> page, fail |-> fail]

NoRequest == Request("none", <<>>, FALSE, EmptyObj, Undefined, Undefined, FALSE)
NoResponse == Resp(0, TRUE, "", FALSE, <<>>, NoPagination)
NoPending == [active |-> FALSE, req |-> NoRequest, limitNum |-> 0, pageNum |-> 0,
              totalCount |-> 0, stable |-> FALSE]

NodeEnvs == {"development", "production"}

Init ==
    /\ store = {}
    /\ nextId = 1
    /\ clock = 1
    /\ nodeEnv \in NodeEnvs
    /\ pending = NoPending
    /\ req = NoRequest
    /\ res = NoResponse
    /\ lists = <<>>
    /\ deleted = {}

\* what every completed request leaves behind: the request, its response and
\* the collection; a changed collection ends the run of list responses taken
\* from one collection state
Complete(r, out) ==
    /\ req' = r
    /\ res' = out.res
    /\ store' = out.store
    /\ deleted' = deleted \cup (Ids(store) \ Ids(out.store))
    /\ lists' = IF out.store = store THEN lists ELSE <<>>
    /\ pending' = IF out.store = store THEN pending ELSE [pending EXCEPT !.stable = FALSE]

\* router.get('/events'): which handler the query selects
GetRoute(id) == IF id # <<>> THEN "getEventById" ELSE "getLatestEvents"

\* Express matches /events/:id only with a non-empty id segment
ParamRouteMatches(id) == id # <<>>

GetById ==
    \E id \in IdInputs, fail \in BOOLEAN :
        /\ GetRoute(id) = "getEventById"
        /\ fail => isValid(id)
        /\ Complete(Request("get", id, FALSE, EmptyObj, Undefined, Undefined, fail),
                    getEventById(store, nodeEnv, id, fail))
        /\ UNCHANGED <<nextId, clock, nodeEnv>>

Create ==
    \E hasBody \in BOOLEAN, body \in CreateBodies, fail \in BOOLEAN :
    \E t1 \in clock..MaxClock : \E t2 \in t1..MaxClock : \E t3 \in t2..MaxClock :
        LET out == createEvent(store, nodeEnv, nextId, hasBody, body, t1, t2, t3, fail)
        IN  /\ ~hasBody => body = EmptyObj
            /\ out.res.status = 201 => nextId <= MaxDocs
            /\ fail => out.res.status = 500 /\ hasBody
            /\ out.res.status # 201 => t1 = clock /\ t2 = clock /\ t3 = clock
            /\ Complete(Request("create", <<>>, hasBody, body, Undefined, Undefined, fail), out)
            /\ nextId' = IF out.res.status = 201 THEN nextId + 1 ELSE nextId
            /\ clock' = t3
            /\ UNCHANGED nodeEnv

Update ==
    \E id \in IdInputs, hasBody \in BOOLEAN, body \in UpdateBodies, fail \in BOOLEAN :
    \E now \in clock..MaxClock :
        LET out == updateEvent(store, nodeEnv, id, hasBody, body, now, fail)
        IN  /\ ParamRouteMatches(id)
            /\ ~hasBody => body = EmptyObj
            /\ out.res.status # 200 => now = clock
            /\ fail => out.res.status = 500 /\ hasBody
            /\ Complete(Request("update", id, hasBody, body, Undefined, Undefined, fail), out)
            /\ clock' = now
            /\ UNCHANGED <<nextId, nodeEnv>>

Delete ==
    \E id \in IdInputs, fail \in BOOLEAN :
        /\ ParamRouteMatches(id)
        /\ fail => isValid(id)
        /\ Complete(Request("delete", id, FALSE, EmptyObj, Undefined, Undefined, fail),
                    deleteEvent(store, nodeEnv, id, fail))
        /\ UNCHANGED <<nextId, clock, nodeEnv>>

\* the validation of getLatestEvents: the 400 response, or none
ListRejected(limitNum, pageNum) ==
    IF NotPositive(limitNum) THEN <<Failure(400, "Limit must be a positive integer")>>
    ELSE IF NotPositive(pageNum) THEN <<Failure(400, "Page must be a positive integer")>>
    ELSE <<>>

\* getLatestEvents handled with no other request in between
getLatestEvents(coll, env, limit, page, fail, order) ==
    LET limitNum == QueryInt(limit, DefaultLimit)
        pageNum  == QueryInt(page, DefaultPage)
        rejected == ListRejected(limitNum, pageNum)
    IN  IF rejected # <<>> THEN rejected[1]
        ELSE IF fail THEN CatchBlock(env)
        ELSE ListResponse(SkipLimit(order, Skip(pageNum.n, limitNum.n), limitNum.n),
                          pageNum.n, limitNum.n, countDocuments(coll))

List ==
    \E id \in IdInputs, limit \in LimitInputs, page \in PageInputs, fail \in BOOLEAN :
    \E order \in SortedDesc(store) :
        /\ GetRoute(id) = "getLatestEvents"
        /\ fail => ListRejected(QueryInt(limit, DefaultLimit), QueryInt(page, DefaultPage)) = <<>>
        /\ Complete(Request("list", id, FALSE, EmptyObj, limit, page, fail),
                    Outcome(getLatestEvents(store, nodeEnv, limit, page, fail, order), store))
        /\ UNCHANGED <<nextId, clock, nodeEnv>>

\* app.use((req, res) => ...): no route matches
RouteNotFound ==
        /\ ~ParamRouteMatches(<<>>)
        /\ Complete(Request("noroute", <<>>, FALSE, EmptyObj, Undefined, Undefined, FALSE),
                    Outcome(Failure(404, "Route not found"), store))
        /\ UNCHANGED <<nextId, clock, nodeEnv>>

\* the global error handler: the error text only when NODE_ENV is development
GlobalErrorHandler(env) ==
    Resp(500, FALSE, "Internal server error", env = "development", <<>>, NoPagination)

\* express.json() rejects a malformed body of a POST (no id) or PUT and the
\* error reaches the global handler
MalformedBody ==
    \E id \in {<<>>, Z23 \o <<"a">>} :
        /\ Complete(Request("malformed", id, FALSE, EmptyObj, Undefined, Undefined, FALSE),
                    Outcome(GlobalErrorHandler(nodeEnv), store))
        /\ UNCHANGED <<nextId, clock, nodeEnv>>

Next ==
    \/ GetById
    \/ List
    \/ Create
    \/ Update
    \/ Delete
    \/ RouteNotFound
    \/ MalformedBody

\* requests handled one at a time
Spec == Init /\ [][Next]_vars

(***************************************************************************)
(* List requests running beside creations and deletions: the handler       *)
(* awaits the store twice (countDocuments, then find), and other requests  *)
(* are served in between.                                                  *)
(***************************************************************************)
\* getLatestEvents up to and including countDocuments()
ListValidate ==
    \E limit \in PagingLimits, page \in PagingPages, fail \in BOOLEAN :
        LET r        == Request("list", <<>>, FALSE, EmptyObj, limit, page, fail)
            limitNum == QueryInt(limit, DefaultLimit)
            pageNum  == QueryInt(page, DefaultPage)
            rejected == ListRejected(limitNum, pageNum)
        IN  /\ ~pending.active
            /\ fail => rejected = <<>>
            /\ IF rejected # <<>> THEN Complete(r, Outcome(rejected[1], store))
               ELSE IF fail THEN Complete(r, Outcome(CatchBlock(nodeEnv), store))
               ELSE /\ pending' = [active |-> TRUE, req |-> r, limitNum |-> limitNum.n,
                                   pageNum |-> pageNum.n,
                                   totalCount |-> countDocuments(store), stable |-> TRUE]
                    /\ UNCHANGED <<store, req, res, lists, deleted>>
            /\ UNCHANGED <<nextId, clock, nodeEnv>>

\* the record kept of a list response whose count and find saw one collection
ListRecord(r) == [limit |-> r.pagination.limit, page |-> r.pagination.currentPage,
                  data |-> r.data, totalEvents |-> r.pagination.totalEvents,
                  totalPages |-> r.pagination.totalPages]

\* getLatestEvents from find() to the response
ListRespond ==
    \E fail \in BOOLEAN : \E order \in SortedDesc(store) :
        LET events == SkipLimit(order, Skip(pending.pageNum, pending.limitNum),
                                pending.limitNum)
            r      == IF fail THEN CatchBlock(nodeEnv)
                      ELSE ListResponse(events, pending.pageNum, pending.limitNum,
                                        pending.totalCount)
        IN  /\ pending.active
            /\ req' = [pending.req EXCEPT !.fail = fail]
            /\ res' = r
            /\ lists' = IF fail \/ ~pending.stable THEN lists
                        ELSE IF lists = <<>> \/ lists[Len(lists)].limit # pending.limitNum
                        THEN <<ListRecord(r)>>
                        ELSE <<lists[Len(lists)], ListRecord(r)>>
            /\ pending' = NoPending
            /\ UNCHANGED <<store, nextId, clock, nodeEnv, deleted>>

\* POST /events of another client: the clock read once
PageCreate ==
    \E body \in PageBodies : \E t \in clock..MaxClock :
        /\ nextId <= MaxDocs
        /\ Complete(Request("create", <<>>, TRUE, body, Undefined, Undefined, FALSE),
                    createEvent(store, nodeEnv, nextId, TRUE, body, t, t, t, FALSE))
        /\ nextId' = nextId + 1
        /\ clock' = t
        /\ UNCHANGED nodeEnv

\* DELETE /events/:id of another client, for a stored document
PageDelete ==
    \E id \in IdInputs :
        /\ isValid(id)
        /\ findOne(store, ObjectId(id)) # {}
        /\ Complete(Request("delete", id, FALSE, EmptyObj, Undefined, Undefined, FALSE),
                    deleteEvent(store, nodeEnv, id, FALSE))
        /\ UNCHANGED <<nextId, clock, nodeEnv>>

NextList ==
    \/ ListValidate
    \/ ListRespond
    \/ PageCreate
    \/ PageDelete

SpecList == Init /\ [][NextList]_vars

(***************************************************************************)
(* The rigor_rank coercions.  createEvent and updateEvent handle the       *)
(* values a JSON body can carry in rigor_rank: a number, a numeric text, a *)
(* text with no digits, the empty text and null.                           *)
(***************************************************************************)
RankInputs == { Num(3), Num(0), Str(<<"5">>), Str(<<"x">>), Str(<<>>), Null }

\* bodies of POST /events: a name, with and without rigor_rank
RankCreateBodies == { NameOnly } \cup { NameOnly @@ ("rigor_rank" :> v) : v \in RankInputs }

\* bodies of PUT /events/:id: rigor_rank alone, or another key alone
RankUpdateBodies == { "tagline" :> Str(<<"n">>) } \cup { "rigor_rank" :> v : v \in RankInputs }

\* POST /events with a rigor_rank to coerce
RankCreate ==
    \E body \in RankCreateBodies : \E t \in clock..MaxClock :
        /\ nextId <= MaxDocs
        /\ Complete(Request("create", <<>>, TRUE, body, Undefined, Undefined, FALSE),
                    createEvent(store, nodeEnv, nextId, TRUE, body, t, t, t, FALSE))
        /\ nextId' = nextId + 1
        /\ clock' = t
        /\ UNCHANGED nodeEnv

\* PUT /events/:id with a rigor_rank to coerce
RankUpdate ==
    \E id \in IdInputs, body \in RankUpdateBodies : \E now \in clock..MaxClock :
        LET out == updateEvent(store, nodeEnv, id, TRUE, body, now, FALSE)
        IN  /\ ParamRouteMatches(id)
            /\ out.res.status # 200 => now = clock
            /\ Complete(Request("update", id, TRUE, body, Undefined, Undefined, FALSE), out)
            /\ clock' = now
            /\ UNCHANGED <<nextId, nodeEnv>>

NextRank ==
    \/ RankCreate
    \/ RankUpdate

SpecRank == Init /\ [][NextRank]_vars

(***************************************************************************)
(* Properties.  A step of the handlers is read off req', res' (the request *)
(* just handled and its response), store (the collection before it) and    *)
(* store' (the collection after it).                                       *)
(***************************************************************************)
\* the request just handled went to one of the three by-identifier handlers
ByIdStep == req'.op \in {"get", "update", "delete"}

\* a well-formed store key: 24 characters, each a hexadecimal digit
WellFormedKey(id) ==
    /\ Len(id) = 24
    /\ \A i \in 1..Len(id) :
          id[i] \in {"0", "1", "2", "3", "4", "5", "6", "7", "8", "9", "a", "b", "c",
                     "d", "e", "f", "A", "B", "C", "D", "E", "F"}

\* no stored document has the key the id text denotes
Absent(coll, id) == findOne(coll, ObjectId(id)) = {}

\* C1 (as stated): Get-by-identifier, Update and Delete answer a malformed
\* identifier with 400 "Invalid Event ID format" and a well-formed identifier
\* that no stored document has with 404 (store and body-parser failures aside).
C1_Original ==
    [][ByIdStep /\ ~req'.fail /\ (req'.op = "update" => req'.hasBody) =>
          /\ ~WellFormedKey(req'.id) =>
                res'.status = 400 /\ res'.message = "Invalid Event ID format"
          /\ WellFormedKey(req'.id) /\ Absent(store, req'.id) => res'.status = 404]_vars

\* C1 (amended): a malformed identifier is answered with 400 "Invalid Event ID
\* format" by all three handlers, whatever else the request holds; a well-formed
\* identifier that no stored document has is answered with 404 by Get and
\* Delete, and by Update when its body has at least one key, while Update with
\* an empty body is answered with 400 "No update fields provided" (a store call
\* that throws, or an Update without a parsed body, gives 500 instead).
C1_Amended ==
    [][ByIdStep =>
          /\ ~WellFormedKey(req'.id) =>
                res'.status = 400 /\ res'.message = "Invalid Event ID format"
          /\ WellFormedKey(req'.id) /\ Absent(store, req'.id) /\ ~req'.fail
               /\ (req'.op = "update" => req'.hasBody) =>
                IF req'.op = "update" /\ DOMAIN req'.body = {}
                THEN res'.status = 400 /\ res'.message = "No update fields provided"
                ELSE res'.status = 404 /\ store' = store]_vars

\* C1 witness: a stored document exists, and an Update with a non-empty body
\* for another, well-formed identifier was answered 404
C1_Witness ==
    /\ store # {}
    /\ req.op = "update" /\ DOMAIN req.body # {}
    /\ WellFormedKey(req.id) /\ res.status = 404

UpdateDone == req'.op = "update" /\ res'.status = 200

\* the document with the key, before or after a step
DocOf(coll, key) == CHOOSE d \in coll : d["_id"] = key

EventKind == Str(<<"e", "v", "e", "n", "t">>)

\* C3: every stored document has kind "event" and an identifier the store
\* generated, no two the same; a successful Update keeps the identifier and the
\* kind of its document, also with _id and type in the body, applies the other
\* keys of the body, and leaves every other document as it was.
C3_ReservedFieldsKept ==
    [][/\ \A d \in store' :
             /\ d["type"] = EventKind
             /\ \E n \in 1..(nextId' - 1) : d["_id"] = GeneratedId(n)
       /\ Cardinality(Ids(store')) = Cardinality(store')
       /\ UpdateDone =>
             LET key == ObjectId(req'.id)
             IN  /\ key \in Ids(store) /\ key \in Ids(store')
                 /\ Ids(store') = Ids(store)
                 /\ DocOf(store', key)["type"] = DocOf(store, key)["type"]
                 /\ store' \ {DocOf(store', key)} = store \ {DocOf(store, key)}
                 /\ \A k \in DOMAIN req'.body \ {"_id", "type", "updatedAt",
                                                 "schedule", "rigor_rank"} :
                       DocOf(store', key)[k] = req'.body[k]]_vars

\* C3 witness: an Update with _id, type and tagline in its body succeeded and
\* the tagline of the body is stored
C3_Witness ==
    /\ req.op = "update" /\ res.status = 200
    /\ {"_id", "type", "tagline"} \subseteq DOMAIN req.body
    /\ \E d \in store : d["_id"] = ObjectId(req.id) /\ d["tagline"] = req.body["tagline"]

\* C4 (as stated): createdAt is immutable: a document that a step keeps has
\* the createdAt it had before the step, whatever an Update body contains.
C4_Original ==
    [][\A d \in store : \A e \in store' :
          e["_id"] = d["_id"] => e["createdAt"] = d["createdAt"]]_vars

\* C5 (as stated): every successful Update leaves its document with an
\* updatedAt greater than the one it had.
C5_Original ==
    [][UpdateDone =>
          DocOf(store', ObjectId(req'.id))["updatedAt"].n
             > DocOf(store, ObjectId(req'.id))["updatedAt"].n]_vars

\* C5 (amended): with requests handled one at a time, every successful Update
\* stores as updatedAt the clock reading taken while handling it, whatever the
\* body contains (an updatedAt key of the body is overwritten); that value is
\* greater than or equal to the one the document had, and equal when both
\* readings fall in the same millisecond.
C5_Amended ==
    [][UpdateDone =>
          LET before == DocOf(store, ObjectId(req'.id))["updatedAt"]
              after  == DocOf(store', ObjectId(req'.id))["updatedAt"]
          IN  /\ after = DateV(clock') /\ clock' >= clock
              /\ before.t = "date" /\ after.n >= before.n]_vars

\* C5 witness: an Update with an updatedAt key in its body succeeded after the
\* clock moved on, and the stored updatedAt is the clock reading
C5_Witness ==
    /\ req.op = "update" /\ res.status = 200 /\ "updatedAt" \in DOMAIN req.body
    /\ clock > 1
    /\ \E d \in store : d["_id"] = ObjectId(req.id) /\ d["updatedAt"] = DateV(clock)
                        /\ d["createdAt"].n < clock

\* the documents of a page, as a set
PageSet(data) == {data[i] : i \in 1..Len(data)}

Min(a, b) == IF a < b THEN a ELSE b

\* what C6 asks of one recorded list response for a collection of n documents
PageAsClaimed(rec, n) ==
    LET skip == (rec.page - 1) * rec.limit
    IN  /\ rec.totalEvents = n
        /\ rec.totalPages = (IF n % rec.limit = 0 THEN n \div rec.limit
                             ELSE n \div rec.limit + 1)
        /\ Len(rec.data) = (IF n > skip THEN Min(rec.limit, n - skip) ELSE 0)
        /\ PageSet(rec.data) \subseteq store
        /\ \A i, j \in 1..Len(rec.data) :
              i < j => /\ rec.data[i] # rec.data[j]
                       /\ rec.data[i]["schedule"].n >= rec.data[j]["schedule"].n

\* C6 (as stated): while the collection does not change, the List responses
\* for one limit report totalEvents = N and totalPages = ceil(N / limit), each
\* page holds its share of the documents in schedule-descending order, and the
\* pages of different page numbers are disjoint, so that pages 1..ceil(N/limit)
\* hold every document exactly once.
C6_Original ==
    /\ \A i \in 1..Len(lists) : PageAsClaimed(lists[i], Cardinality(store))
    /\ Len(lists) = 2 /\ lists[1].page # lists[2].page =>
          PageSet(lists[1].data) \cap PageSet(lists[2].data) = {}

\* the stored document a Create response names
Created == DocOf(store, res.data[1]["_id"])

\* C7 (as stated): a Create with only a non-empty name stores a document with
\* type "event", tagline "", attendees [], rigor_rank 0, files {image: null}
\* and createdAt equal to updatedAt.
C7_Original ==
    req.op = "create" /\ res.status = 201 /\ DOMAIN req.body = {"name"} =>
        /\ Created["type"] = EventKind
        /\ Created["tagline"] = Str(<<>>)
        /\ Created["attendees"] = Arr(<<>>)
        /\ Created["rigor_rank"] = Num(0)
        /\ Created["files"] = Obj(<<"image", ":", "null">>)
        /\ Created["createdAt"] = Created["updatedAt"]

\* C10 (as stated): a failure response carries the error detail only when the
\* process runs in development mode.
C10_Original ==
    res.success = FALSE /\ res.hasError => nodeEnv = "development"

\* the fields of a document a client supplies
ClientFields == {"uid", "name", "tagline", "schedule", "description", "files",
                 "moderator", "category", "sub_category", "rigor_rank", "attendees"}

\* the default of a field the client left out
DefaultOf(k) ==
    CASE k \in {"uid", "moderator"} -> Null
      [] k = "files"      -> Obj(<<"image", ":", "null">>)
      [] k = "rigor_rank" -> Num(0)
      [] k = "attendees"  -> Arr(<<>>)
      [] OTHER            -> Str(<<>>)

\* the response to a Get-by-identifier with the identifier a Create returned,
\* sent right after it
GetCreated == getEventById(store, nodeEnv, res.data[1]["_id"].s, FALSE).res

\* a Create was just accepted
CreateDone == req.op = "create" /\ res.status = 201

\* the server-assigned part of a returned document
ServerAssigned(doc) ==
    /\ DOMAIN doc = ClientFields \cup {"_id", "type", "createdAt", "updatedAt"}
    /\ doc["_id"] = res.data[1]["_id"]
    /\ doc["type"] = EventKind
    /\ \E t \in 1..clock : doc["createdAt"] = DateV(t)
    /\ \E t \in 1..clock : doc["updatedAt"] = DateV(t)

\* C8 (as stated): after an accepted Create, a Get with the returned identifier
\* responds 200 with a document whose client-supplied fields equal the input
\* (schedule as the date and rigor_rank as the integer the input denotes) and
\* whose other fields are the server-assigned ones and the defaults.
C8_Original ==
    CreateDone =>
        /\ GetCreated.status = 200
        /\ LET doc == GetCreated.data[1]
           IN  /\ ServerAssigned(doc)
               /\ \A k \in ClientFields :
                     IF k \in DOMAIN req.body
                     THEN doc[k] = (CASE k = "schedule"   -> NewDate(req.body[k])
                                      [] k = "rigor_rank" -> parseInt(req.body[k])
                                      [] OTHER            -> req.body[k])
                     ELSE k = "schedule" \/ doc[k] = DefaultOf(k)

\* C8 (amended): after an accepted Create, a Get with the returned identifier
\* responds 200 with a document that has exactly the eleven client fields and
\* _id, type, createdAt, updatedAt (keys of the body outside the eleven, and
\* its _id, type, createdAt and updatedAt, are ignored); a client field holds
\* the input only where the input is truthy (for attendees: is an array), with
\* schedule stored as the date and rigor_rank as the integer it denotes, and
\* holds its default otherwise, also when a falsy or non-array value was sent.
C8_Amended ==
    CreateDone =>
        /\ GetCreated.status = 200
        /\ LET doc == GetCreated.data[1]
           IN  /\ ServerAssigned(doc)
               /\ \A k \in ClientFields :
                     LET given == k \in DOMAIN req.body /\ Truthy(req.body[k])
                     IN  CASE k = "schedule" ->
                                IF given THEN doc[k] = NewDate(req.body[k])
                                ELSE \E t \in 1..clock : doc[k] = DateV(t)
                           [] k = "rigor_rank" ->
                                doc[k] = (IF given THEN parseInt(req.body[k]) ELSE Num(0))
                           [] k = "attendees" ->
                                doc[k] = (IF given /\ req.body[k].t = "arr"
                                          THEN req.body[k] ELSE Arr(<<>>))
                           [] OTHER ->
                                doc[k] = (IF given THEN req.body[k] ELSE DefaultOf(k))

\* C8 witness: a Create whose body holds a falsy uid, a non-array attendees and
\* an unknown key was accepted, and the Get of it responds 200
C8_Witness ==
    /\ CreateDone /\ GetCreated.status = 200
    /\ {"uid", "attendees", "foo", "tagline"} \subseteq DOMAIN req.body
    /\ GetCreated.data[1]["tagline"] = req.body["tagline"]

\* C9: the Delete of a stored document responds 200 and removes that document
\* and no other; every Delete, at any later time, of an identifier already
\* deleted responds 404 and leaves the collection as it is (store calls that
\* throw aside).
C9_DeleteOnce ==
    [][req'.op = "delete" /\ ~req'.fail /\ WellFormedKey(req'.id) =>
          LET key == ObjectId(req'.id)
          IN  /\ key \in Ids(store) =>
                    /\ res'.status = 200 /\ key \notin Ids(store') /\ key \in deleted'
                    /\ store' = store \ {DocOf(store, key)}
                    /\ Cardinality(store') = Cardinality(store) - 1
              /\ key \in deleted =>
                    res'.status = 404 /\ store' = store]_vars

\* C9 witness: a Delete of an identifier deleted before was answered 404 while
\* another document is stored
C9_Witness ==
    /\ req.op = "delete" /\ res.status = 404
    /\ ObjectId(req.id) \in deleted /\ store # {}

\* C11 (as stated): in every reachable state the rigor_rank of every stored
\* document is an integer, whatever value a Create or Update body carried in
\* rigor_rank (number, numeric text, text with no digits, empty text, null).
C11_Original == \A d \in store : d["rigor_rank"].t = "num"

\* C12 (as stated): every successful List response describes one collection
\* state, also with Create and Delete requests of other clients between the
\* handler's count and its find: data holds exactly
\* min(limit, max(0, totalEvents - skip)) documents, skip = (page - 1) * limit.
C12_Original ==
    req.op = "list" /\ res.status = 200 =>
        LET p    == res.pagination
            left == p.totalEvents - Skip(p.currentPage, p.limit)
        IN  Len(res.data) = Min(p.limit, IF left > 0 THEN left ELSE 0)

====
